---- MODULE Spec2Model ----
(***************************************************************************)
(* kal-time: resolution of partially specified time strings and timespans  *)
(* against a reference timestamp (src/src/lib.rs, src/src/parse.rs).       *)
(*                                                                         *)
(* Strings are sequences of one-character strings.  An Option<T> is a set: *)
(* {} is None and {v} is Some(v).  A DateTime<FixedOffset> is a record     *)
(* [naive |-> its local wall-clock fields, off |-> its offset in seconds]. *)
(***************************************************************************)
EXTENDS Integers, Sequences, FiniteSets, TLC

VARIABLES
    action,     \* "time" | "timespan" | "partial": which entry point runs
    input,      \* the string handed to the entry point
    reference,  \* the caller's reference timestamp
    tz,         \* the system timezone chrono::Local resolves through
    fmt,        \* parse_partial's format (direct calls only)
    zeroes,     \* parse_partial's complete_with_zeroes (direct calls only)
    pc,         \* position of the running call
    side,       \* which parse_with_reference call runs: "time" | "start" | "stop"
    timestr,    \* the string of the running parse_with_reference call
    curRef,     \* the reference of the running parse_with_reference call
    fmtIdx,     \* next index into TIMEPARSER_FORMATS
    tried,      \* outcome of each format tried by the running call, in order
    parsed,     \* Parsed of the last parse_partial call that matched textually
    completed,  \* the same Parsed after field completion
    stopParsed, \* Parsed of the pattern that decided the stop side
    start,      \* Option: the resolved start
    stop,       \* Option: the resolved stop
    ret,        \* the value the last parse_with_reference call returned
    result      \* the value the entry point returned

vars == <<action, input, reference, tz, fmt, zeroes, pc, side, timestr, curRef,
          fmtIdx, tried, parsed, completed, stopParsed, start, stop, ret, result>>

----------------------------------------------------------------------------
(* Option *)

None == {}

Some(v) == {v}

IsNone(o) == o = {}

IsSome(o) == o # {}

Unwrap(o) == CHOOSE v \in o : TRUE

----------------------------------------------------------------------------
(* Characters *)

Digits == {"0", "1", "2", "3", "4", "5", "6", "7", "8", "9"}

DigitVal(c) ==
    CASE c = "0" -> 0 [] c = "1" -> 1 [] c = "2" -> 2 [] c = "3" -> 3
      [] c = "4" -> 4 [] c = "5" -> 5 [] c = "6" -> 6 [] c = "7" -> 7
      [] c = "8" -> 8 [] c = "9" -> 9

IsSpace(c) == c = " "

RECURSIVE TrimStart(_)
TrimStart(s) ==
    IF s # <<>> /\ IsSpace(Head(s)) THEN TrimStart(Tail(s)) ELSE s

\* Number of leading ASCII digits of s, at most max.
RECURSIVE LeadingDigits(_, _)
LeadingDigits(s, max) ==
    IF max = 0 \/ s = <<>> \/ Head(s) \notin Digits THEN 0
    ELSE 1 + LeadingDigits(Tail(s), max - 1)

RECURSIVE DigitsValue(_, _)
DigitsValue(s, acc) ==
    IF s = <<>> THEN acc ELSE DigitsValue(Tail(s), acc * 10 + DigitVal(Head(s)))

----------------------------------------------------------------------------
(* Format items, as StrftimeItems yields them *)

Num(f) == [k |-> "num", f |-> f, c |-> ""]

Lit(c) == [k |-> "lit", f |-> "", c |-> c]

Space == [k |-> "space", f |-> "", c |-> " "]

FmtYMD == <<Num("year"), Lit("-"), Num("month"), Lit("-"), Num("day")>>

FmtMD == <<Num("month"), Lit("-"), Num("day")>>

FmtHM == <<Num("hour"), Lit(":"), Num("minute")>>

FmtHMS == FmtHM \o <<Lit(":"), Num("second")>>

TIMEPARSER_FORMATS ==
    << FmtYMD,                                                  \* %Y-%m-%d
       FmtYMD \o <<Space>> \o FmtHM,                            \* %Y-%m-%d %H:%M
       FmtYMD \o <<Space>> \o FmtHMS,                           \* %Y-%m-%d %H:%M:%S
       FmtMD,                                                   \* %m-%d
       <<Num("month"), Lit("/"), Num("day")>>,                  \* %m/%d
       FmtMD \o <<Space>> \o FmtHMS,                            \* %m-%d %H:%M:%S
       FmtMD \o <<Space>> \o FmtHM,                             \* %m-%d %H:%M
       <<Num("day"), Space>> \o FmtHM,                          \* %d %H:%M
       <<Num("day"), Space, Num("hour"), Lit("h"), Num("minute")>>, \* %d %Hh%M
       <<Num("day"), Space, Num("hour"), Lit("h")>>,            \* %d %Hh
       FmtHMS,                                                  \* %H:%M:%S
       FmtHM,                                                   \* %H:%M
       <<Num("hour"), Lit("h"), Num("minute")>>,                \* %Hh%M
       <<Num("hour"), Lit("h")>>,                               \* %Hh
       <<Num("minute"), Lit("m")>>,                             \* %Mm
       <<Num("minute")>>,                                       \* %M
       <<Lit("@"), Num("timestamp")>> >>                        \* @%s

NumFormats == Len(TIMEPARSER_FORMATS)

----------------------------------------------------------------------------
(* chrono::format::Parsed and chrono::format::parse *)

Fields == {"year", "month", "day", "hour", "minute", "second", "nanosecond"}

EmptyParsed ==
    [year |-> None, month |-> None, day |-> None, hour |-> None,
     minute |-> None, second |-> None, nanosecond |-> None, timestamp |-> None]

\* Digits a numeric item takes when the input carries no sign.
Width(f, s) ==
    CASE f = "year" -> 4
      [] f = "nanosecond" -> 9
      [] f = "timestamp" -> Len(s)
      [] OTHER -> 2

Signed(f) == f = "year"

\* The range each Parsed::set_* accepts.
InRange(f, v) ==
    CASE f = "month" -> v >= 1 /\ v <= 12
      [] f = "day" -> v >= 1 /\ v <= 31
      [] f = "hour" -> v >= 0 /\ v <= 23
      [] f = "minute" -> v >= 0 /\ v <= 59
      [] f = "second" -> v >= 0 /\ v <= 60
      [] f = "nanosecond" -> v >= 0 /\ v <= 999999999
      [] OTHER -> TRUE

ParseErr(kind) == [ok |-> FALSE, parsed |-> EmptyParsed, err |-> kind]

\* Parsed::set_*: out of range is an error, a value is stored as Some.
SetField(p, f, v) ==
    IF InRange(f, v) THEN [ok |-> TRUE, parsed |-> [p EXCEPT ![f] = Some(v)], err |-> ""]
    ELSE ParseErr("OutOfRange")

RECURSIVE ParseItems(_, _, _)

\* The value of a numeric item is stored and the rest of the input parsed.
StoreNumber(set, s, rest) ==
    IF ~set.ok THEN set ELSE ParseItems(s, rest, set.parsed)

\* scan::number took the n leading digits of body.
TakeDigits(body, n, neg, f, rest, p) ==
    IF n = 0 THEN ParseErr(IF body = <<>> THEN "TooShort" ELSE "Invalid")
    ELSE StoreNumber(SetField(p, f, IF neg THEN 0 - DigitsValue(SubSeq(body, 1, n), 0)
                                           ELSE DigitsValue(SubSeq(body, 1, n), 0)),
                     SubSeq(body, n + 1, Len(body)), rest)

HasSign(f, t) == Signed(f) /\ t # <<>> /\ Head(t) \in {"-", "+"}

\* A numeric item on input t, leading white space already skipped: a signed
\* field takes a sign and then any number of digits, otherwise up to its width.
ParseNumeric(t, f, rest, p) ==
    IF HasSign(f, t)
    THEN TakeDigits(Tail(t), LeadingDigits(Tail(t), Len(t)), Head(t) = "-", f, rest, p)
    ELSE TakeDigits(t, LeadingDigits(t, Width(f, t)), FALSE, f, rest, p)

\* chrono::format::parse: the items in order, then no input may be left.
ParseItems(s, items, p) ==
    IF items = <<>> THEN
        IF s = <<>> THEN [ok |-> TRUE, parsed |-> p, err |-> ""]
        ELSE ParseErr("TooLong")
    ELSE
        CASE Head(items).k = "lit" ->
                IF s = <<>> THEN ParseErr("TooShort")
                ELSE IF Head(s) # Head(items).c THEN ParseErr("Invalid")
                ELSE ParseItems(Tail(s), Tail(items), p)
          [] Head(items).k = "space" -> ParseItems(TrimStart(s), Tail(items), p)
          [] OTHER -> ParseNumeric(TrimStart(s), Head(items).f, Tail(items), p)

FormatParse(s, items) == ParseItems(s, items, EmptyParsed)

----------------------------------------------------------------------------
(* Calendar arithmetic of chrono's NaiveDate, NaiveTime and DateTime *)

IsLeapYear(y) == (y % 4 = 0 /\ y % 100 # 0) \/ y % 400 = 0

DaysInMonth(y, m) ==
    CASE m \in {4, 6, 9, 11} -> 30
      [] m = 2 -> IF IsLeapYear(y) THEN 29 ELSE 28
      [] OTHER -> 31

\* Days from 1970-01-01 to the civil date y-m-d.
DaysFromCivil(y, m, d) ==
    LET yy == IF m <= 2 THEN y - 1 ELSE y
        era == yy \div 400
        yoe == yy - era * 400
        mp == IF m > 2 THEN m - 3 ELSE m + 9
        doy == (153 * mp + 2) \div 5 + d - 1
        doe == yoe * 365 + yoe \div 4 - yoe \div 100 + doy
    IN  era * 146097 + doe - 719468

\* The civil date of a day count from 1970-01-01.
CivilFromDays(days) ==
    LET z == days + 719468
        era == z \div 146097
        doe == z - era * 146097
        yoe == (doe - doe \div 1460 + doe \div 36524 - doe \div 146096) \div 365
        doy == doe - (365 * yoe + yoe \div 4 - yoe \div 100)
        mp == (5 * doy + 2) \div 153
        d == doy - (153 * mp + 2) \div 5 + 1
        m == IF mp < 10 THEN mp + 3 ELSE mp - 9
        y == yoe + era * 400 + (IF m <= 2 THEN 1 ELSE 0)
    IN  [year |-> y, month |-> m, day |-> d]

Naive(y, mo, d, h, mi, s, ns) ==
    [year |-> y, month |-> mo, day |-> d, hour |-> h, minute |-> mi,
     second |-> s, nanosecond |-> ns]

\* Day count of the wall-clock value n from 1970-01-01, and its second of the day.
DayNumber(n) == DaysFromCivil(n.year, n.month, n.day)

SecondOfDay(n) == n.hour * 3600 + n.minute * 60 + n.second

\* NaiveDateTime of a day count and a second of the day.
NaiveFromDay(days, sec) ==
    LET c == CivilFromDays(days)
    IN  Naive(c.year, c.month, c.day, sec \div 3600, (sec % 3600) \div 60, sec % 60, 0)

\* NaiveDateTime of a count of seconds from 1970-01-01T00:00:00.
NaiveFromSeconds(secs) == NaiveFromDay(secs \div 86400, secs % 86400)

DateTime(n, off) == [naive |-> n, off |-> off]

\* The UTC instant of dt as <<day, second of the day, nanosecond>>.
UtcInstant(dt) ==
    LET t == SecondOfDay(dt.naive) - dt.off
    IN  <<DayNumber(dt.naive) + t \div 86400, t % 86400, dt.naive.nanosecond>>

\* DateTime::timestamp: seconds of the instant from the Unix epoch.
Timestamp(dt) == UtcInstant(dt)[1] * 86400 + UtcInstant(dt)[2]

\* Ord and Eq of DateTime compare the UTC instants.
InstantEq(a, b) == UtcInstant(a) = UtcInstant(b)

InstantGt(a, b) ==
    LET x == UtcInstant(a)
        y == UtcInstant(b)
    IN  \/ x[1] > y[1]
        \/ x[1] = y[1] /\ x[2] > y[2]
        \/ x[1] = y[1] /\ x[2] = y[2] /\ x[3] > y[3]

\* start + chrono::Duration::days(1): 86400 s later in the same offset; a
\* leap-second start leaves the leap second.
AddOneDay(dt) ==
    LET n == NaiveFromDay(DayNumber(dt.naive) + 1, SecondOfDay(dt.naive))
    IN  DateTime([n EXCEPT !.nanosecond = dt.naive.nanosecond % 1000000000], dt.off)

----------------------------------------------------------------------------
(* The system timezone behind chrono::Local *)

\* A zone is [name, std |-> standard offset in seconds, dst |-> whether it
\* keeps EU summer time: one hour forward from the last Sunday of March
\* 01:00 UTC to the last Sunday of October 01:00 UTC].
ZoneUTC == [name |-> "UTC", std |-> 0, dst |-> FALSE]

ZoneLondon == [name |-> "Europe/London", std |-> 0, dst |-> TRUE]

ZoneParis == [name |-> "Europe/Paris", std |-> 3600, dst |-> TRUE]

\* Day of the month of the last Sunday of month m (of 31 days) in year y.
LastSunday(y, m) == 31 - ((DaysFromCivil(y, m, 31) + 4) % 7)

\* TimeZone::from_local_datetime for Local: the LocalResult of a wall-clock
\* value, with the offset of the earlier instant when it is ambiguous.
LocalResultAt(zone, day, sec, gapDay, lapDay) ==
    CASE day = gapDay /\ sec >= 3600 + zone.std /\ sec < 7200 + zone.std ->
            [kind |-> "None", off |-> zone.std]
      [] day = lapDay /\ sec >= 3600 + zone.std /\ sec < 7200 + zone.std ->
            [kind |-> "Ambiguous", off |-> zone.std + 3600]
      [] /\ day > gapDay \/ (day = gapDay /\ sec >= 7200 + zone.std)
         /\ day < lapDay \/ (day = lapDay /\ sec < 3600 + zone.std) ->
            [kind |-> "Single", off |-> zone.std + 3600]
      [] OTHER -> [kind |-> "Single", off |-> zone.std]

FromLocalDatetime(zone, n) ==
    IF ~zone.dst THEN [kind |-> "Single", off |-> zone.std]
    ELSE LocalResultAt(zone, DayNumber(n), SecondOfDay(n),
                       DaysFromCivil(n.year, 3, LastSunday(n.year, 3)),
                       DaysFromCivil(n.year, 10, LastSunday(n.year, 10)))

----------------------------------------------------------------------------
(* parse_partial *)

\* The getters year, month, ..., nanosecond: fields of the reference's local time.
Get(f, ref) == ref.naive[f]

\* The minimal default of each field.
Min(f) == CASE f = "year" -> 1970 [] f \in {"month", "day"} -> 1 [] OTHER -> 0

\* Mutant of Nums: the fields visited from the coarsest to the finest.
NumsCoarseFirst == <<"year", "month", "day", "hour", "minute", "second", "nanosecond">>

\* The order in which completion visits the fields.
Nums == <<"nanosecond", "second", "minute", "hour", "day", "month", "year">>

\* The loop over nums: an absent field is set to its minimal default while
\* complete_with_zeroes holds and to the reference's value otherwise; an
\* explicit field clears complete_with_zeroes for the fields after it.
RECURSIVE CompleteFrom(_, _, _, _)

\* The setter's result for field i: an error ends completion.
CompleteSet(set, i, ref, cwz) ==
    IF ~set.ok THEN set ELSE CompleteFrom(i + 1, set.parsed, ref, cwz)

CompleteFrom(i, p, ref, cwz) ==
    IF i > Len(Nums) THEN [ok |-> TRUE, parsed |-> p, err |-> ""]
    ELSE IF IsNone(p[Nums[i]])
    THEN CompleteSet(SetField(p, Nums[i], IF cwz THEN Min(Nums[i]) ELSE Get(Nums[i], ref)),
                     i, ref, cwz)
    ELSE CompleteFrom(i + 1, p, ref, FALSE)

CompleteFields(p, ref, cwz) ==
    IF IsSome(p.timestamp) THEN [ok |-> TRUE, parsed |-> p, err |-> ""]
    ELSE CompleteFrom(1, p, ref, cwz)

\* Mutant of ToNaiveDatetime: the day is not checked against the month.
ToNaiveDatetimeAnyDay(p) ==
    IF \E f \in Fields : IsNone(p[f]) THEN
        IF IsSome(p.timestamp)
        THEN [ok |-> TRUE, naive |-> Some(NaiveFromSeconds(Unwrap(p.timestamp)))]
        ELSE [ok |-> FALSE, naive |-> None]
    ELSE [ok |-> TRUE,
          naive |-> Some(Naive(Unwrap(p.year), Unwrap(p.month), Unwrap(p.day),
                               Unwrap(p.hour), Unwrap(p.minute),
                               IF Unwrap(p.second) = 60 THEN 59 ELSE Unwrap(p.second),
                               Unwrap(p.nanosecond)
                                   + (IF Unwrap(p.second) = 60 THEN 1000000000 ELSE 0)))]

\* Parsed::to_naive_datetime_with_offset(0): the epoch value when only it is
\* set; otherwise the date must exist and second 60 is a leap second.
ToNaiveDatetime(p) ==
    IF \E f \in Fields : IsNone(p[f]) THEN
        IF IsSome(p.timestamp)
        THEN [ok |-> TRUE, naive |-> Some(NaiveFromSeconds(Unwrap(p.timestamp)))]
        ELSE [ok |-> FALSE, naive |-> None]
    ELSE
        LET y == Unwrap(p.year)
            m == Unwrap(p.month)
            d == Unwrap(p.day)
            s == Unwrap(p.second)
        IN  IF d > DaysInMonth(y, m) THEN [ok |-> FALSE, naive |-> None]
            ELSE [ok |-> TRUE,
                  naive |-> Some(Naive(y, m, d, Unwrap(p.hour), Unwrap(p.minute),
                                       IF s = 60 THEN 59 ELSE s,
                                       Unwrap(p.nanosecond)
                                           + (IF s = 60 THEN 1000000000 ELSE 0)))]

\* Whether the offset resolution reads the naive value as UTC.
UtcMode(ref) == ref.off = 0

\* The match on LocalResult: Single and Ambiguous give the (earlier) value,
\* None is unreachable!().
PickLocal(n, lr) ==
    IF lr.kind = "None" THEN [kind |-> "panic", dt |-> None]
    ELSE [kind |-> "ok", dt |-> Some(DateTime(n, lr.off))]

\* Mutant of ResolveOffset: the naive value takes the reference's own offset.
ResolveOffsetOfReference(n, ref, zone) == [kind |-> "ok", dt |-> Some(DateTime(n, ref.off))]

\* The offset resolution of a calendar value: UTC for a reference of offset
\* zero, otherwise the system timezone.
ResolveOffset(n, ref, zone) ==
    IF UtcMode(ref) THEN [kind |-> "ok", dt |-> Some(DateTime(n, 0))]
    ELSE PickLocal(n, FromLocalDatetime(zone, n))

\* Mutant of ResolveTimestamp: the epoch value goes through the offset
\* resolution of a calendar value.
ResolveTimestampAsLocal(n, ref, zone) == ResolveOffset(n, ref, zone)

\* The value of an "@%s" input: the epoch value as a UTC instant.
ResolveTimestamp(n, ref, zone) == [kind |-> "ok", dt |-> Some(DateTime(n, 0))]

\* parse_partial's value.  kind is "ok", "err" or "panic"; stage tells where an
\* error arose: "match" (chrono::format::parse), "complete" (a setter) or
\* "naive" (to_naive_datetime_with_offset).
Partial(kind, stage, dt, p, c) ==
    [kind |-> kind, stage |-> stage, dt |-> dt, parsed |-> p, completed |-> c]

ResolvedAs(r, p, c) == Partial(r.kind, "", r.dt, Some(p), Some(c))

\* parse_partial from line 83 on: the naive value, then its offset.
Resolve(p, c, n, ref, zone) ==
    IF ~n.ok THEN Partial("err", "naive", None, Some(p), Some(c))
    ELSE IF IsSome(c.timestamp)
    THEN ResolvedAs(ResolveTimestamp(Unwrap(n.naive), ref, zone), p, c)
    ELSE ResolvedAs(ResolveOffset(Unwrap(n.naive), ref, zone), p, c)

\* parse_partial from line 46 on: completion of the matched fields.
Complete(p, c, ref, zone) ==
    IF ~c.ok THEN Partial("err", "complete", None, Some(p), None)
    ELSE Resolve(p, c.parsed, ToNaiveDatetime(c.parsed), ref, zone)

\* parse_partial after chrono::format::parse returned m.
Matched(m, ref, cwz, zone) ==
    IF ~m.ok THEN Partial("err", "match", None, None, None)
    ELSE Complete(m.parsed, CompleteFields(m.parsed, ref, cwz), ref, zone)

ParsePartial(s, items, ref, cwz, zone) ==
    Matched(FormatParse(s, items), ref, cwz, zone)

\* parse_with_reference as a function of its arguments and the system
\* timezone: the value of the first format parse_partial returns Ok for.
ValueOf(r) ==
    CASE r.kind = "ok" -> [kind |-> "ok", err |-> "", value |-> <<Unwrap(r.dt)>>]
      [] r.kind = "panic" -> [kind |-> "panic", err |-> "", value |-> <<>>]
      [] OTHER -> [kind |-> "err", err |-> "parse", value |-> <<>>]

RECURSIVE ParseFrom(_, _, _, _)

ParseFromWith(r, i, s, ref, zone) ==
    IF r.kind = "err" THEN ParseFrom(i + 1, s, ref, zone) ELSE ValueOf(r)

ParseFrom(i, s, ref, zone) ==
    IF i > NumFormats THEN [kind |-> "err", err |-> "parse", value |-> <<>>]
    ELSE ParseFromWith(ParsePartial(s, TIMEPARSER_FORMATS[i], ref, TRUE, zone), i, s, ref, zone)

ParseWithReference(s, ref, zone) ==
    IF s = <<>>
    THEN ValueOf([ParsePartial(<<>>, <<>>, ref, FALSE, zone) EXCEPT
                    !.kind = IF @ = "err" THEN "panic" ELSE @])
    ELSE ParseFrom(1, s, ref, zone)

----------------------------------------------------------------------------
(* Inputs: the strings, references and system timezones the calls are run on *)

\* How many quarter-hour minute strings ("15", "30", ...) are among the inputs.
MaxQuarter == 2

\* How many days after 2024-01-01T23:00:00Z the "@N" inputs reach.
MaxEpochDays == 1

DigitChar(d) ==
    CASE d = 0 -> "0" [] d = 1 -> "1" [] d = 2 -> "2" [] d = 3 -> "3"
      [] d = 4 -> "4" [] d = 5 -> "5" [] d = 6 -> "6" [] d = 7 -> "7"
      [] d = 8 -> "8" [] d = 9 -> "9"

RECURSIVE Decimal(_)
Decimal(n) ==
    IF n < 10 THEN <<DigitChar(n)>> ELSE Decimal(n \div 10) \o <<DigitChar(n % 10)>>

MinuteStrings == { Decimal(15 * i) : i \in 1..MaxQuarter }

EpochStrings == { <<"@">> \o Decimal(1704150000 + 86400 * i) : i \in 0..MaxEpochDays }

DateStrings ==
    { <<"2","0","2","5","-","1","0","-","2","2">>,
      <<"2","0","2","5","-","1","0","-","2","2"," ","0","3",":","1","7">>,
      <<"2","0","1","5","-","0","2","-","0","1"," ","2","3",":","2","2",":","1","2">>,
      <<"2","0","2","5","-","0","3","-","3","0"," ","0","2",":","3","0">>,
      <<"0","2","-","3","0">>,
      <<"3","/","3","0">>,
      <<"1","0","-","2","6"," ","0","2",":","3","0",":","0","0">>,
      <<"0","3","-","3","0"," ","0","1",":","3","0">>,
      <<"3","1"," ","1","0",":","0","0">>,
      <<"8"," ","9","h","3","0">>,
      <<"8"," ","9","h">> }

ClockStrings ==
    { <<"1","0",":","1","5",":","3","0">>,
      <<"1","0",":","1","5",":","6","0">>,
      <<"1","0",":","1","5">>,
      <<"0","2",":","3","0">>,
      <<"9","h","3","0">>,
      <<"9","h">>,
      <<"3","0","m">> }

BadStrings ==
    { <<"t","o","t","o">>,
      <<"2","5",":","0","0">> }

TimeStrings ==
    {<<>>} \cup DateStrings \cup ClockStrings \cup MinuteStrings \cup EpochStrings
        \cup BadStrings

StartStrings ==
    { <<>>,
      <<"1","0",":","1","5">>,
      <<"1","0",":","1","5",":","3","0">>,
      <<"1","0",":","1","5",":","6","0">>,
      <<"2","0","2","5","-","1","0","-","2","7"," ","1","0",":","3","0">>,
      <<"2","0","2","5","-","0","1","-","1","0">>,
      <<"0","2","-","3","0">> } \cup EpochStrings

StopStrings ==
    { <<>>,
      <<"1","1",":","3","0">>,
      <<"0","9",":","0","0">>,
      <<"0","2",":","3","0">>,
      <<"2","0","2","5","-","0","7","-","1","0"," ","1","0",":","0","0">>,
      <<"3","1"," ","1","0",":","0","0">>,
      <<".","3","0">>,
      <<"t","o","t","o">> } \cup MinuteStrings \cup EpochStrings

TimespanStrings ==
    TimeStrings \cup { a \o <<".", ".">> \o b : a \in StartStrings, b \in StopStrings }

References ==
    { DateTime(Naive(2014, 7, 8, 9, 10, 11, 0), 0),
      DateTime(Naive(2025, 10, 27, 6, 0, 0, 0), 0),
      DateTime(Naive(2025, 12, 1, 12, 0, 0, 0), 3600),
      DateTime(Naive(2025, 7, 1, 12, 0, 0, 0), 7200),
      DateTime(Naive(2025, 3, 30, 12, 0, 0, 0), 7200),
      DateTime(Naive(2025, 4, 30, 23, 30, 45, 123), 19800) }

Zones == {ZoneUTC, ZoneLondon, ZoneParis}

\* Formats parse_partial is called with directly: the catalog, the empty
\* format of the empty input, and the formats of its own tests.
PartialFormats ==
    { TIMEPARSER_FORMATS[i] : i \in 1..NumFormats }
        \cup { <<>>, <<Num("year")>>, <<Num("hour")>>,
               <<Num("year"), Lit("-"), Num("month")>>,
               FmtYMD \o <<Space, Num("hour")>> }

PartialStrings ==
    TimeStrings \cup { <<"2","0","1","5">>, <<"1","2">>,
                       <<"2","0","1","5","-","0","2">>,
                       <<"2","0","1","5","-","0","2","-","0","1"," ","2","3">> }

----------------------------------------------------------------------------
(* Values the entry points return *)

Ok(values) == [kind |-> "ok", err |-> "", value |-> values]

Err(what) == [kind |-> "err", err |-> what, value |-> <<>>]

Panic == [kind |-> "panic", err |-> "", value |-> <<>>]

NoResult == [kind |-> "none", err |-> "", value |-> <<>>]

\* str::split_once(".."): the parts around the first "..", if any.
RECURSIVE FindSeparator(_, _)
FindSeparator(s, i) ==
    IF i + 1 > Len(s) THEN 0
    ELSE IF s[i] = "." /\ s[i + 1] = "." THEN i
    ELSE FindSeparator(s, i + 1)

SplitOnce(s) ==
    LET i == FindSeparator(s, 1)
    IN  IF i = 0 THEN [found |-> FALSE, before |-> s, after |-> <<>>]
        ELSE [found |-> TRUE, before |-> SubSeq(s, 1, i - 1),
              after |-> SubSeq(s, i + 2, Len(s))]

----------------------------------------------------------------------------
(* The calls *)

Init ==
    /\ action \in {"time", "timespan"}
    /\ input \in (IF action = "time" THEN TimeStrings ELSE TimespanStrings)
    /\ reference \in References
    /\ tz \in Zones
    /\ fmt = <<>>
    /\ zeroes = FALSE
    /\ pc = "entry"
    /\ side = "none"
    /\ timestr = <<>>
    /\ curRef = reference
    /\ fmtIdx = 1
    /\ tried = <<>>
    /\ parsed = None
    /\ completed = None
    /\ stopParsed = None
    /\ start = None
    /\ stop = None
    /\ ret = NoResult
    /\ result = NoResult

\* parse_with_reference is entered with string s and reference ref.
Enter(which, s, ref) ==
    /\ pc' = "parse"
    /\ side' = which
    /\ timestr' = s
    /\ curRef' = ref
    /\ fmtIdx' = 1
    /\ tried' = <<>>

\* kt-parse "time": parse_with_reference(input, reference).
CallTime ==
    /\ pc = "entry"
    /\ action = "time"
    /\ Enter("time", input, reference)
    /\ UNCHANGED <<action, input, reference, tz, fmt, zeroes, parsed, completed,
                   stopParsed, start, stop, ret, result>>

\* parse_timespan_with_reference: split on "..", then resolve the start
\* (the whole input when there is no separator) against the reference.
CallTimespan ==
    /\ pc = "entry"
    /\ action = "timespan"
    /\ Enter("start", SplitOnce(input).before, reference)
    /\ UNCHANGED <<action, input, reference, tz, fmt, zeroes, parsed, completed,
                   stopParsed, start, stop, ret, result>>

\* parse_with_reference on the empty string: parse_partial("", "", reference,
\* false), whose error is unreachable!().
EmptyInputWith(r) ==
    /\ parsed' = r.parsed
    /\ completed' = r.completed
    /\ stopParsed' = IF side = "stop" /\ r.kind = "ok" THEN r.parsed ELSE stopParsed
    /\ IF r.kind = "ok"
       THEN /\ ret' = Ok(<<Unwrap(r.dt)>>)
            /\ pc' = "returned"
            /\ result' = result
       ELSE /\ ret' = ret
            /\ pc' = "panic"
            /\ result' = Panic

EmptyInput ==
    /\ pc = "parse"
    /\ timestr = <<>>
    /\ EmptyInputWith(ParsePartial(<<>>, <<>>, curRef, FALSE, tz))
    /\ UNCHANGED <<action, input, reference, tz, fmt, zeroes, side, timestr, curRef,
                   fmtIdx, tried, start, stop>>

\* Mutant of TriesNext: only a textual mismatch goes on to the next format.
TriesNextOnMismatch(r) == r.kind = "err" /\ r.stage = "match"

\* Whether the loop over TIMEPARSER_FORMATS goes on to the next format after
\* parse_partial returned r: on every Err.
TriesNext(r) == r.kind # "ok"

\* One iteration of the loop over TIMEPARSER_FORMATS, parse_partial having
\* returned r: Ok is returned, an Err goes on to the next format.
TryFormatWith(r) ==
    /\ parsed' = r.parsed
    /\ completed' = r.completed
    /\ tried' = Append(tried, IF r.kind = "err" THEN r.stage ELSE r.kind)
    /\ stopParsed' = IF side = "stop" /\ r.kind = "ok" THEN r.parsed ELSE stopParsed
    /\ IF r.kind = "panic"
       THEN /\ pc' = "panic"
            /\ result' = Panic
            /\ UNCHANGED <<ret, fmtIdx>>
       ELSE IF TriesNext(r)
       THEN /\ fmtIdx' = fmtIdx + 1
            /\ UNCHANGED <<pc, ret, result>>
       ELSE /\ ret' = IF r.kind = "ok" THEN Ok(<<Unwrap(r.dt)>>) ELSE Err("parse")
            /\ pc' = "returned"
            /\ UNCHANGED <<fmtIdx, result>>

TryFormat ==
    /\ pc = "parse"
    /\ timestr # <<>>
    /\ fmtIdx <= NumFormats
    /\ TryFormatWith(ParsePartial(timestr, TIMEPARSER_FORMATS[fmtIdx], curRef, TRUE, tz))
    /\ UNCHANGED <<action, input, reference, tz, fmt, zeroes, side, timestr, curRef,
                   start, stop>>

\* No format parsed the string: "Could not parse time string".
NoFormatLeft ==
    /\ pc = "parse"
    /\ timestr # <<>>
    /\ fmtIdx > NumFormats
    /\ ret' = Err("parse")
    /\ pc' = "returned"
    /\ UNCHANGED <<action, input, reference, tz, fmt, zeroes, side, timestr, curRef,
                   fmtIdx, tried, parsed, completed, stopParsed, start, stop, result>>

\* kt-parse "time": the value of parse_with_reference is the outcome.
TimeReturned ==
    /\ pc = "returned"
    /\ side = "time"
    /\ result' = ret
    /\ pc' = "done"
    /\ UNCHANGED <<action, input, reference, tz, fmt, zeroes, side, timestr, curRef,
                   fmtIdx, tried, parsed, completed, stopParsed, start, stop, ret>>

\* Mutant of StopReference: the stop is resolved against the caller's reference.
StopReferenceCaller(first, ref) == ref

\* The reference the stop side is resolved against: the resolved start.
StopReference(first, ref) == first

\* The start is resolved: an error is returned; with a separator the stop is
\* resolved against the start; without one the stop is the start plus a day.
StartReturned ==
    /\ pc = "returned"
    /\ side = "start"
    /\ IF ret.kind = "err"
       THEN /\ result' = ret
            /\ pc' = "done"
            /\ UNCHANGED <<side, timestr, curRef, fmtIdx, tried, start, stop>>
       ELSE LET first == ret.value[1] IN
            /\ start' = Some(first)
            /\ result' = result
            /\ IF SplitOnce(input).found
               THEN /\ Enter("stop", SplitOnce(input).after, StopReference(first, reference))
                    /\ stop' = stop
               ELSE /\ stop' = Some(AddOneDay(first))
                    /\ pc' = "validate"
                    /\ UNCHANGED <<side, timestr, curRef, fmtIdx, tried>>
    /\ UNCHANGED <<action, input, reference, tz, fmt, zeroes, parsed, completed,
                   stopParsed, ret>>

\* The stop is resolved: an error is returned, a value goes on to validation.
StopReturned ==
    /\ pc = "returned"
    /\ side = "stop"
    /\ IF ret.kind = "err"
       THEN /\ result' = ret
            /\ pc' = "done"
            /\ stop' = stop
       ELSE /\ stop' = Some(ret.value[1])
            /\ pc' = "validate"
            /\ result' = result
    /\ UNCHANGED <<action, input, reference, tz, fmt, zeroes, side, timestr, curRef,
                   fmtIdx, tried, parsed, completed, stopParsed, start, ret>>

\* Mutant of Reversed: the pair is never rejected.
ReversedNever(first, second) == FALSE

\* Whether parse_timespan_with_reference rejects the pair: start > stop.
Reversed(first, second) == InstantGt(first, second)

\* The validation of the resolved pair.
Validate ==
    /\ pc = "validate"
    /\ result' = IF Reversed(Unwrap(start), Unwrap(stop))
                 THEN Err("timespan")
                 ELSE Ok(<<Unwrap(start), Unwrap(stop)>>)
    /\ pc' = "done"
    /\ UNCHANGED <<action, input, reference, tz, fmt, zeroes, side, timestr, curRef,
                   fmtIdx, tried, parsed, completed, stopParsed, start, stop, ret>>

Next ==
    \/ CallTime
    \/ CallTimespan
    \/ EmptyInput
    \/ TryFormat
    \/ NoFormatLeft
    \/ TimeReturned
    \/ StartReturned
    \/ StopReturned
    \/ Validate

Spec == Init /\ [][Next]_vars

----------------------------------------------------------------------------
(* parse_partial called directly, with any format and either completion mode *)

InitPartial ==
    /\ action = "partial"
    /\ input \in PartialStrings
    /\ reference \in References
    /\ tz = ZoneUTC
    /\ fmt \in PartialFormats
    /\ zeroes \in BOOLEAN
    /\ pc = "entry"
    /\ side = "none"
    /\ timestr = input
    /\ curRef = reference
    /\ fmtIdx = 1
    /\ tried = <<>>
    /\ parsed = None
    /\ completed = None
    /\ stopParsed = None
    /\ start = None
    /\ stop = None
    /\ ret = NoResult
    /\ result = NoResult

CallParsePartialWith(r) ==
    /\ parsed' = r.parsed
    /\ completed' = r.completed
    /\ result' = CASE r.kind = "ok" -> Ok(<<Unwrap(r.dt)>>)
                   [] r.kind = "err" -> Err(r.stage)
                   [] OTHER -> Panic
    /\ pc' = IF r.kind = "panic" THEN "panic" ELSE "done"

CallParsePartial ==
    /\ pc = "entry"
    /\ action = "partial"
    /\ CallParsePartialWith(ParsePartial(input, fmt, reference, zeroes, tz))
    /\ UNCHANGED <<action, input, reference, tz, fmt, zeroes, side, timestr, curRef,
                   fmtIdx, tried, stopParsed, start, stop, ret>>

NextPartial == CallParsePartial

SpecPartial == InitPartial /\ [][NextPartial]_vars

----------------------------------------------------------------------------
(* Properties *)

HasSeparator == SplitOnce(input).found

Finished == pc \in {"done", "panic"}

\* The fields finer than f.
Rank(f) ==
    CASE f = "nanosecond" -> 1 [] f = "second" -> 2 [] f = "minute" -> 3
      [] f = "hour" -> 4 [] f = "day" -> 5 [] f = "month" -> 6 [] f = "year" -> 7

FinerExplicit(p, f) == \E g \in Fields : Rank(g) < Rank(f) /\ IsSome(p[g])

DefaultOf(f) == IF f = "year" THEN 1970 ELSE IF f \in {"month", "day"} THEN 1 ELSE 0

\* Seconds from the epoch of an instant of the years 1970 to 2037.
EpochSeconds(dt) ==
    DaysFromCivil(dt.naive.year, dt.naive.month, dt.naive.day) * 86400
        + dt.naive.hour * 3600 + dt.naive.minute * 60 + dt.naive.second - dt.off

NotAfter(a, b) ==
    \/ EpochSeconds(a) < EpochSeconds(b)
    \/ EpochSeconds(a) = EpochSeconds(b) /\ a.naive.nanosecond <= b.naive.nanosecond

\* The outcome of last format the running call tried.
LastTried == IF tried = <<>> THEN "none" ELSE tried[Len(tried)]

\* C1: parse_with_reference("", reference) returns an instant equal to the
\* reference, for every reference offset and every system timezone.
C1_EmptyReturnsReference ==
    (action = "time" /\ input = <<>> /\ Finished)
        => /\ result.kind = "ok"
           /\ EpochSeconds(result.value[1]) = EpochSeconds(reference)
           /\ result.value[1].naive.nanosecond = reference.naive.nanosecond

\* C2: after field completion of a matched input without an epoch value,
\* every explicit field keeps its parsed value; an absent field has its
\* minimal default if and only if complete_with_zeroes is true and no finer
\* field is explicit; every other absent field has the reference's value.
\* "12" as %H against 2014-07-08T09:10:11Z with complete_with_zeroes gives
\* 2014-07-08T12:00:00.
C2_FieldCompletion ==
    /\ (pc # "entry" /\ IsSome(parsed) /\ IsNone(Unwrap(parsed).timestamp))
        => /\ IsSome(completed)
           /\ \A f \in Fields :
                Unwrap(completed)[f] =
                    IF IsSome(Unwrap(parsed)[f]) THEN Unwrap(parsed)[f]
                    ELSE IF zeroes /\ ~FinerExplicit(Unwrap(parsed), f)
                    THEN {DefaultOf(f)}
                    ELSE {reference.naive[f]}
    /\ (/\ pc # "entry"
        /\ input = <<"1", "2">>
        /\ fmt = <<Num("hour")>>
        /\ zeroes
        /\ reference = DateTime(Naive(2014, 7, 8, 9, 10, 11, 0), 0))
        => result = Ok(<<DateTime(Naive(2014, 7, 8, 12, 0, 0, 0), 0)>>)

\* C2 witness: an hour-only input completed with zeroes below the hour and
\* the reference's values above it.
C2_Witness ==
    /\ pc = "done"
    /\ zeroes
    /\ IsSome(completed)
    /\ Unwrap(parsed).hour = {12}
    /\ IsNone(Unwrap(parsed).minute)
    /\ IsNone(Unwrap(parsed).day)
    /\ reference.naive.minute = 30
    /\ Unwrap(completed).minute = {0}
    /\ Unwrap(completed).day = {30}

\* C3: parse_timespan_with_reference never returns a pair with start > stop:
\* a returned pair has start <= stop, a resolved pair with start > stop is
\* the invalid-timespan error, and without separator the pair is
\* (start, start + 24h).
C3_TimespanOrdered ==
    action = "timespan"
        => /\ result.kind = "ok"
                => /\ Len(result.value) = 2
                   /\ NotAfter(result.value[1], result.value[2])
           /\ (pc = "done" /\ IsSome(start) /\ IsSome(stop)
                    /\ ~NotAfter(Unwrap(start), Unwrap(stop)))
                => result = Err("timespan")
           /\ (result.kind = "ok" /\ ~HasSeparator)
                => EpochSeconds(result.value[2]) = EpochSeconds(result.value[1]) + 86400

\* C3 witness: a reversed pair was resolved and rejected.
C3_Witness ==
    /\ action = "timespan"
    /\ pc = "done"
    /\ HasSeparator
    /\ IsSome(start)
    /\ IsSome(stop)
    /\ result = Err("timespan")

\* The state in which both sides of a separated timespan are resolved.
StopResolved ==
    /\ action = "timespan"
    /\ HasSeparator
    /\ pc \in {"validate", "done"}
    /\ IsSome(start)
    /\ IsSome(stop)
    /\ IsSome(stopParsed)

\* C4 as claimed: every field the stop string omits has the start's value.
C4_StopBorrowsEveryOmitted ==
    StopResolved
        => \A f \in Fields :
                IsNone(Unwrap(stopParsed)[f])
                    => Unwrap(stop).naive[f] = Unwrap(start).naive[f]

\* C4 as amended: of the fields a calendar stop string omits, those coarser
\* than an explicit field have the start's value and those finer than every
\* explicit field have their minimal default; an empty stop string takes
\* every field from the start.
C4_StopBorrowsCoarser ==
    (StopResolved /\ IsNone(Unwrap(stopParsed).timestamp))
        => \A f \in Fields :
                IsNone(Unwrap(stopParsed)[f])
                    => Unwrap(stop).naive[f] =
                          IF \/ FinerExplicit(Unwrap(stopParsed), f)
                             \/ SplitOnce(input).after = <<>>
                          THEN Unwrap(start).naive[f]
                          ELSE DefaultOf(f)

\* C4 witness: the stop omits the day and has the start's day, which is not
\* the day of the caller's reference.
C4_Witness ==
    /\ StopResolved
    /\ result.kind = "ok"
    /\ IsNone(Unwrap(stopParsed).day)
    /\ IsSome(Unwrap(stopParsed).minute)
    /\ Unwrap(stop).naive.day = Unwrap(start).naive.day
    /\ Unwrap(start).naive.day # reference.naive.day

\* C5: "@N" resolves to the instant N seconds after the epoch with offset
\* zero, whatever the reference and the system timezone.
C5_EpochIsUtc ==
    (action = "time" /\ Finished /\ input \in EpochStrings)
        => /\ result.kind = "ok"
           /\ result.value[1].off = 0
           /\ result.value[1].naive.nanosecond = 0
           /\ EpochSeconds(result.value[1]) = DigitsValue(Tail(input), 0)

\* C5 witness: an epoch input resolved against a reference of non-zero
\* offset under a system timezone of non-zero offset.
C5_Witness ==
    /\ action = "time"
    /\ pc = "done"
    /\ input \in EpochStrings
    /\ reference.off # 0
    /\ tz = ZoneParis
    /\ result.kind = "ok"

\* A fully specified date-time: matched by %Y-%m-%d %H:%M or %Y-%m-%d %H:%M:%S.
FullDateTime(s) ==
    \/ FormatParse(s, TIMEPARSER_FORMATS[2]).ok
    \/ FormatParse(s, TIMEPARSER_FORMATS[3]).ok

SameOutcome(a, b) ==
    /\ a.kind = b.kind
    /\ a.kind = "ok" => InstantEq(a.value[1], b.value[1])

C7_FirstMatchDecides ==
    \A i \in 1..Len(tried) : tried[i] \in {"complete", "naive"} => Len(tried) = i

\* C7 as amended: a format whose completion or resolution fails is passed
\* over like one that does not match: the call returns the value of the
\* first format parse_partial returns Ok for, and the could-not-parse error
\* only after every format of the catalog was tried and failed.
C7_EveryFormatTried ==
    (pc = "returned" /\ timestr # <<>>)
        => /\ \A i \in 1..(Len(tried) - 1) : tried[i] \in {"match", "complete", "naive"}
           /\ ret.kind = "ok" => LastTried = "ok"
           /\ ret.kind = "err"
                => /\ Len(tried) = NumFormats
                   /\ LastTried \in {"match", "complete", "naive"}
                   /\ ret = Err("parse")

\* C7 witness: a call that failed after a format matched textually, failed
\* in resolution, and later formats were tried.
C7_Witness ==
    /\ pc = "returned"
    /\ ret.kind = "err"
    /\ \E i \in 1..Len(tried) : tried[i] = "naive" /\ Len(tried) > i

\* C8: no call ends in a panic.
C8_NoPanic == pc # "panic"

ValidDateTime(c) ==
    /\ Unwrap(c.month) \in 1..12
    /\ Unwrap(c.day) >= 1
    /\ Unwrap(c.day) <= (CASE Unwrap(c.month) \in {4, 6, 9, 11} -> 30
                           [] Unwrap(c.month) = 2 ->
                                IF Unwrap(c.year) % 4 = 0
                                    /\ (Unwrap(c.year) % 100 # 0 \/ Unwrap(c.year) % 400 = 0)
                                THEN 29 ELSE 28
                           [] OTHER -> 31)
    /\ Unwrap(c.hour) \in 0..23
    /\ Unwrap(c.minute) \in 0..59
    /\ Unwrap(c.second) \in 0..60
    /\ Unwrap(c.nanosecond) \in 0..999999999

\* C9 as claimed: the completed field set of a textually matched input is a
\* valid calendar date-time.
C9_CompletedIsValid ==
    (IsSome(completed) /\ IsNone(Unwrap(completed).timestamp))
        => ValidDateTime(Unwrap(completed))

\* C9 as amended: completion of a textually matched input does not fail, but
\* the completed day may not exist in the completed month and year; the
\* construction of the naive datetime fails exactly then, and a format that
\* yields a value has a valid calendar date-time.
C9_ValidWhenResolved ==
    (tried # <<>> /\ LastTried # "match")
        => /\ LastTried # "complete"
           /\ IsSome(completed)
           /\ IsNone(Unwrap(completed).timestamp)
                => (LastTried = "naive" <=> ~ValidDateTime(Unwrap(completed)))

\* C9 witness: "31 10:00" completed with the month of an April reference.
C9_Witness ==
    /\ LastTried = "naive"
    /\ IsSome(completed)
    /\ IsNone(Unwrap(parsed).month)
    /\ Unwrap(completed).month = {4}
    /\ Unwrap(completed).day = {31}

\* C10: with a separator, a caller's reference of offset zero gives start
\* and stop offset zero, and a caller's reference of non-zero offset has a
\* calendar stop string resolved through the system timezone.
C10_StopModeFollowsCaller ==
    (StopResolved /\ result.kind = "ok")
        => /\ reference.off = 0
                => Unwrap(start).off = 0 /\ Unwrap(stop).off = 0
           /\ (/\ reference.off # 0
               /\ SplitOnce(input).after # <<>>
               /\ IsNone(Unwrap(stopParsed).timestamp))
                => Unwrap(stop).off = FromLocalDatetime(tz, Unwrap(stop).naive).off

====
